---- MODULE Spec2Model ----
(***************************************************************************)
(* State-machine model of the BTC alerts server: the signal detector      *)
(* (src/signal-detector.ts), the Binance executor                         *)
(* (src/binance-executor.ts) and the trading bot that wires them          *)
(* (src/unnamed/part_001, imported as ./trading-bot).                     *)
(*                                                                         *)
(* Numbers.  JavaScript numbers that carry prices are held in fixed point: *)
(* the value v is the integer v * Scale (one decimal, the price step of    *)
(* the instrument).  The percentage distances of the scoring rules are     *)
(* compared by cross-multiplication, so none of them is decided by a       *)
(* truncated quotient.  Times are milliseconds, as in the source.          *)
(*                                                                         *)
(* Optional values (T | null) are sequences of length 0 or 1.              *)
(***************************************************************************)
EXTENDS Integers, Sequences, FiniteSets, TLC

\* ------------------------------------------------------------------ bounds
MaxStarts == 2         \* start() passes of the detector that get past its isRunning guard
MaxClockSteps == 2     \* steps the wall clock (Date.now()) advances
MaxFeedBuckets == 1    \* candle buckets the feed's event time advances (short runs)
MaxEngineStarts == 1   \* start() passes of the detector, where it runs alone
MaxFeedLong == 103     \* candle buckets the feed advances in the run that fills the history
MaxConnects == 13      \* WebSocket objects the monitor creates
MaxLive == 2           \* sockets and reconnect timers outstanding when the monitor is restarted
MaxExec == 2           \* executeSignal calls in flight at once
MaxForeign == 2        \* foreign callbacks registered with onPrice, and with onSignal
MaxLogged == 104       \* addLog calls in the run that fills the log
MaxLogRare == 1        \* logged operations other than an ignored signal in that run

\* ------------------------------------------------------- numeric helpers
Scale == 2 * 5
\* C11 mutant: a maximum that keeps its first argument
KeepFirst(a, b) == a

Max2(a, b) == IF a >= b THEN a ELSE b
Min2(a, b) == IF a <= b THEN a ELSE b
Abs(a) == IF a < 0 THEN 0 - a ELSE a
Last(s) == s[Len(s)]

\* ------------------------------------------------------ program constants
maxCandles == 200
candleInterval == 5 * 60 * 1000
minSignalInterval == 5 * 60 * 1000
MinCandles == 50
SeedLimit == 100
FirstAnalysisDelay == 5000

minOrderInterval == 5 * 60 * 1000
maxLogs == 100
DefaultMinScore == 60
DefaultAccountPercentage == 10
DefaultLeverage == 15

maxReconnectAttempts == 10
reconnectDelay == 5000
CooldownDelay == 60000

\* ------------------------------------------------------ environment inputs
BasePrice == 50000 * Scale
HighPrice == 51500 * Scale
TickPrices == {BasePrice, HighPrice}
TimeStep == candleInterval \div 2
NowStart == 4 * candleInterval
MaxNow == NowStart + MaxClockSteps * TimeStep
FeedStart == 300 * candleInterval
TickPhase == 60 * 1000
\* event times a tick may carry, relative to the feed's newest bucket: a late
\* tick of the previous bucket, a tick inside the bucket, a tick of the next one
TickOffsets == {0 - candleInterval, TickPhase, candleInterval}
\* what the API layer may pass to configure (routers.ts validates the ranges)
Credentials == {<<"", "">>, <<"key", "secret">>}
BotConfig(e, c, m) ==
  [enabled |-> e, apiKey |-> c[1], apiSecret |-> c[2], testnet |-> TRUE, leverage |-> 15,
   accountPercentage |-> 10, minScore |-> m, marginType |-> "ISOLATED"]
BotConfigs == {BotConfig(TRUE, c, m) : c \in Credentials, m \in {0, 80}}
                \cup {BotConfig(FALSE, <<"", "">>, 0)}
\* the USDT available balance the venue may report
Balances == {0, 1000 * Scale}

VARIABLES
  now,              \* Date.now()
  feedTime,         \* start of the newest bucket the feed has produced an event for
  candles,          \* ServerSignalDetector.candles
  lastCandleTime,   \* ServerSignalDetector.lastCandleTime
  currentCandle,    \* ServerSignalDetector.currentCandle (<<>> is null)
  sdCallbacks,      \* ServerSignalDetector.callbacks (all are the bot's handler): their number
  lastSignalTime,   \* ServerSignalDetector.lastSignalTime
  sdRunning,        \* ServerSignalDetector.isRunning
  analysisInterval, \* ServerSignalDetector.analysisInterval is not null
  historyLoaded,    \* ServerSignalDetector.historyLoaded
  sdIntervals,      \* setInterval timers of the detector that are live (cleared ones excluded)
  sdTimeouts,       \* setTimeout(5000) timers of the detector that have not fired yet
  sdLoads,          \* start() calls suspended in `await loadHistoricalCandles()`: their callers
  pmSdSubs,         \* processPrice callbacks registered with serverPriceMonitor.onPrice
  lastEmit,         \* history: the latest emission of analyzeMarket (<<>> before the first)
  pmRunning,        \* ServerPriceMonitor.isRunning
  pmBotSubs,        \* the bot's price callbacks registered with serverPriceMonitor.onPrice
  pmSockets,        \* the WebSocket objects connect() created that have not closed yet
  reconnectAttempts,\* ServerPriceMonitor.reconnectAttempts
  pingInterval,     \* ServerPriceMonitor.pingInterval is not null
  pmPings,          \* setInterval(30 s) ping timers of the monitor that are live
  pmTimers,         \* setTimeout timers of scheduleReconnect that have not fired yet
  pmConnects,       \* history: the number of WebSocket objects connect() has created
  pmDrops,          \* history: closes answered with scheduleReconnect since the counter was last reset
  pmLastEvent,      \* history: the latest call or event of the monitor
  botConfig,        \* ServerTradingBot.config (<<>> is null)
  botRunning,       \* ServerTradingBot.isRunning
  lastOrderTime,    \* ServerTradingBot.lastOrderTime
  totalOrders,      \* ServerTradingBot.totalOrders
  botCurrentPrice,  \* ServerTradingBot.currentPrice
  exConfig,         \* ServerBinanceExecutor.config (<<>> is null)
  exBaseUrl,        \* ServerBinanceExecutor.baseUrl
  exCall,           \* the call on the executor in progress, when it is used as a unit
  exTrace,          \* history: the venue requests and responses of that call, in order
  exReturn,         \* history: what the latest call on the executor as a unit returned, and on which answer
  handlers,         \* handleSignal calls suspended in `await executeSignal(...)`
  venuePosition,    \* the venue holds a non-zero BTCUSDT position
  lastResult,       \* history: the latest OrderResult executeSignal returned (<<>> before the first)
  successes,        \* history: the executeSignal calls of handleSignal that returned success
  lastPrice,        \* ServerPriceMonitor.lastPrice (<<>> is null)
  pmForeign,        \* callbacks other than the program's own registered with onPrice: the latest call of each
  sdForeign,        \* callbacks other than the bot's registered with onSignal: the latest call of each
  logs,             \* ServerTradingBot.logs, when the bot's log is followed
  logOpen,          \* handleSignal calls suspended in `await executeSignal(...)`, when the log is followed
  logRare           \* history: the logged operations other than an ignored signal, when the log is followed

sdVars == <<candles, lastCandleTime, currentCandle, sdCallbacks, lastSignalTime,
            sdRunning, analysisInterval, historyLoaded, sdIntervals, sdTimeouts,
            sdLoads, pmSdSubs, lastEmit>>
aggVars == <<candles, lastCandleTime, currentCandle>>
timerVars == <<sdRunning, sdLoads, pmSdSubs, analysisInterval, sdIntervals, sdTimeouts>>
pmVars == <<pmRunning, pmBotSubs, pmSockets, reconnectAttempts, pingInterval, pmPings,
            pmTimers, pmConnects, pmDrops, pmLastEvent>>
botVars == <<botConfig, botRunning, lastOrderTime, totalOrders, botCurrentPrice>>
exVars == <<exConfig, exBaseUrl, exCall, exTrace, exReturn>>
runVars == <<handlers, venuePosition, lastResult, successes>>
feedVars == <<lastPrice, pmForeign, sdForeign>>
logVars == <<logs, logOpen, logRare>>
vars == <<now, feedTime, sdVars, pmVars, botVars, exVars, runVars, feedVars, logVars>>

\* ------------------------------------------------------------- indicators
RECURSIVE SumRange(_, _, _)
SumRange(data, lo, hi) ==
  IF lo > hi THEN 0
  ELSE IF lo = hi THEN data[lo]
  ELSE LET mid == (lo + hi) \div 2
       IN SumRange(data, lo, mid) + SumRange(data, mid + 1, hi)

\* one pass of the loop body  ema = data[i] * k + ema * (1 - k),  k = 2 / (period + 1)
EmaStep(ema, value, period) == (value * 2 + ema * (period - 1)) \div (period + 1)

\* the loop  for (i = lo; i <= hi; i++) ema = ...  , split in halves to keep the
\* evaluation shallow; the left half is evaluated before the right one starts
RECURSIVE EmaRange(_, _, _, _, _)
EmaRange(data, period, lo, hi, ema) ==
  IF lo > hi THEN ema
  ELSE IF lo = hi THEN EmaStep(ema, data[lo], period)
  ELSE LET mid == (lo + hi) \div 2
       IN CHOOSE r \in {EmaRange(data, period, mid + 1, hi, left) :
                          left \in {EmaRange(data, period, lo, mid, ema)}} : TRUE

calculateEMA(data, period) ==
  IF Len(data) < period THEN Last(data)
  ELSE CHOOSE r \in {EmaRange(data, period, period + 1, Len(data), seed) :
                       seed \in {SumRange(data, 1, period) \div period}} : TRUE

\* sums of the positive and of the negated negative changes data[i] - data[i-1], lo <= i <= hi
RECURSIVE GainsRange(_, _, _)
GainsRange(data, lo, hi) ==
  IF lo > hi THEN 0
  ELSE IF lo = hi THEN (IF data[lo] - data[lo - 1] > 0 THEN data[lo] - data[lo - 1] ELSE 0)
  ELSE LET mid == (lo + hi) \div 2
       IN GainsRange(data, lo, mid) + GainsRange(data, mid + 1, hi)

RECURSIVE LossesRange(_, _, _)
LossesRange(data, lo, hi) ==
  IF lo > hi THEN 0
  ELSE IF lo = hi THEN (IF data[lo] - data[lo - 1] > 0 THEN 0 ELSE data[lo - 1] - data[lo])
  ELSE LET mid == (lo + hi) \div 2
       IN LossesRange(data, lo, mid) + LossesRange(data, mid + 1, hi)

\* RSI in fixed point (50 is 50 * Scale)
calculateRSI(data, period) ==
  IF Len(data) < period + 1 THEN 50 * Scale
  ELSE LET gains == GainsRange(data, Len(data) - period + 1, Len(data))
           losses == LossesRange(data, Len(data) - period + 1, Len(data))
       IN IF losses = 0 THEN 100 * Scale
          ELSE (100 * Scale * gains) \div (gains + losses)

calculateMACD(data) ==
  LET macd == calculateEMA(data, 12) - calculateEMA(data, 26)
      signal == (macd * 9) \div 10
  IN [macd |-> macd, signal |-> signal, histogram |-> macd - signal]

TrueRange(current, previous) ==
  Max2(current.high - current.low,
       Max2(Abs(current.high - previous.close), Abs(current.low - previous.close)))

RECURSIVE TrueRangeSum(_, _, _)
TrueRangeSum(cs, lo, hi) ==
  IF lo > hi THEN 0
  ELSE IF lo = hi THEN TrueRange(cs[lo], cs[lo - 1])
  ELSE LET mid == (lo + hi) \div 2
       IN TrueRangeSum(cs, lo, mid) + TrueRangeSum(cs, mid + 1, hi)

calculateATR(cs, cur, period) ==
  IF Len(cs) < period + 1
  THEN LET price == IF cur # <<>> /\ cur[1].close # 0 THEN cur[1].close ELSE 50000 * Scale
       IN price \div 100
  ELSE TrueRangeSum(cs, Len(cs) - period + 1, Len(cs)) \div period

\* ((a - b) / b) * 100 compared with the percentage num / den, b > 0
PctAbove(a, b, num, den) == (a - b) * 100 * den > num * b
PctBelow(a, b, num, den) == (a - b) * 100 * den < num * b

TrendType(price, ema20, ema50) ==
  IF price > ema20 /\ ema20 > ema50 THEN "LONG"
  ELSE IF price < ema20 /\ ema20 < ema50 THEN "SHORT"
  ELSE "NONE"

SignalScore(type, price, ema20, ema50, rsi, macd) ==
  (IF type # "NONE" THEN 25 ELSE 0)
  + (IF \/ type = "LONG" /\ rsi > 40 * Scale /\ rsi < 70 * Scale
        \/ type = "SHORT" /\ rsi < 60 * Scale /\ rsi > 30 * Scale
     THEN 20 ELSE 0)
  + (IF \/ type = "LONG" /\ macd.histogram > 0 /\ macd.macd > macd.signal
        \/ type = "SHORT" /\ macd.histogram < 0 /\ macd.macd < macd.signal
     THEN 25 ELSE 0)
  + (IF \/ type = "LONG" /\ PctAbove(price, ema20, 1, 10) /\ PctBelow(price, ema20, 2, 1)
        \/ type = "SHORT" /\ PctBelow(price, ema20, -1, 10) /\ PctAbove(price, ema20, -2, 1)
     THEN 15 ELSE 0)
  + (IF PctAbove(ema20, ema50, 1, 2) \/ PctBelow(ema20, ema50, -1, 2) THEN 15 ELSE 0)

EmitThreshold(type, score) == type # "NONE" /\ score >= 60

\* the signal, or <<>> for null
detectSignal(price, ema20, ema50, rsi, macd, cs, cur) ==
  LET type == TrendType(price, ema20, ema50)
      score == SignalScore(type, price, ema20, ema50, rsi, macd)
  IN IF EmitThreshold(type, score)
     THEN LET atr == calculateATR(cs, cur, 14)
              stopDistance == (atr * 3) \div 2
              tpMultiplier == IF type = "LONG" THEN 1 ELSE -1
          IN << [type |-> type,
                 entryPrice |-> price,
                 stopLoss |-> IF type = "LONG" THEN price - stopDistance
                              ELSE price + stopDistance,
                 takeProfit1 |-> price + ((stopDistance * 3) \div 2) * tpMultiplier,
                 takeProfit2 |-> price + ((stopDistance * 5) \div 2) * tpMultiplier,
                 takeProfit3 |-> price + (stopDistance * 4) * tpMultiplier,
                 score |-> score,
                 atr |-> atr] >>
     ELSE <<>>

Closes(cs) == [i \in 1..Len(cs) |-> cs[i].close]

\* --------------------------------------------------------- historical bars
\* What the klines endpoint may answer: `n` bars that end with the bar of the
\* feed's newest bucket, closing prices following one of four shapes.
SeedClose(shape, i, n) ==
  CASE shape = "rally" ->
         IF i <= n - 10 THEN BasePrice ELSE BasePrice + (i - (n - 10)) * 150 * Scale
    [] shape = "slump" ->
         IF i <= n - 10 THEN BasePrice ELSE BasePrice - (i - (n - 10)) * 150 * Scale
    [] shape = "plateau" ->
         IF i <= n - 25 THEN BasePrice
         ELSE IF i <= n - 15 THEN BasePrice + (i - (n - 25)) * 150 * Scale
         ELSE HighPrice
    [] shape = "drift" ->
         IF i <= n - 10 THEN BasePrice ELSE BasePrice + (i - (n - 10)) * 40 * Scale

SeedBar(shape, i, n, endTime) ==
  LET c == SeedClose(shape, i, n)
      o == IF i = 1 THEN c ELSE SeedClose(shape, i - 1, n)
  IN [open |-> o, high |-> Max2(o, c), low |-> Min2(o, c), close |-> c,
      volume |-> Scale, timestamp |-> endTime - (n - i) * candleInterval]

Seed(shape, n, endTime) == [i \in 1..n |-> SeedBar(shape, i, n, endTime)]

SeedKinds == {<<"rally", SeedLimit>>, <<"slump", SeedLimit>>, <<"plateau", SeedLimit>>,
              <<"drift", SeedLimit>>, <<"rally", MinCandles - 1>>}

\* ------------------------------------------------------------------- Init
Init ==
  /\ now = NowStart
  /\ feedTime = FeedStart
  /\ candles = <<>>
  /\ lastCandleTime = 0
  /\ currentCandle = <<>>
  /\ sdCallbacks = 0
  /\ lastSignalTime = 0
  /\ sdRunning = FALSE
  /\ analysisInterval = FALSE
  /\ historyLoaded = FALSE
  /\ sdIntervals = 0
  /\ sdTimeouts = 0
  /\ sdLoads = <<>>
  /\ pmSdSubs = 0
  /\ lastEmit = <<>>
  /\ pmRunning = FALSE
  /\ pmBotSubs = 0
  /\ pmSockets = <<>>
  /\ reconnectAttempts = 0
  /\ pingInterval = FALSE
  /\ pmPings = 0
  /\ pmTimers = <<>>
  /\ pmConnects = 0
  /\ pmDrops = 0
  /\ pmLastEvent = "none"
  /\ botConfig = <<>>
  /\ botRunning = FALSE
  /\ lastOrderTime = 0
  /\ totalOrders = 0
  /\ botCurrentPrice = 0
  /\ exConfig = <<>>
  /\ exBaseUrl = ""
  /\ exCall = <<>>
  /\ exTrace = <<>>
  /\ exReturn = <<>>
  /\ handlers = <<>>
  /\ venuePosition = FALSE
  /\ lastResult = <<>>
  /\ successes = 0
  /\ lastPrice = <<>>
  /\ pmForeign = <<>>
  /\ sdForeign = <<>>
  /\ logs = <<>>
  /\ logOpen = 0
  /\ logRare = 0

\* ------------------------------------------------------- signal detector
\* start(), from the subscription to the end: onPrice, setInterval, setTimeout
SdArm ==
  /\ pmSdSubs' = pmSdSubs + 1
  /\ analysisInterval' = TRUE
  /\ sdIntervals' = sdIntervals + 1
  /\ sdTimeouts' = sdTimeouts + 1

\* whether a start() call returns without suspending
SdStartReturnsAtOnce == sdRunning \/ historyLoaded

\* who awaits a start() of the detector: the caller of the detector as a unit,
\* or a start() of the bot, itself awaited by the configure request `req`
\* (<<>> when it is awaited by a start request or by nobody)
ApiCaller == [by |-> "api", req |-> <<>>]
BotCaller(req) == [by |-> "bot", req |-> req]

\* C12 mutant: a start() without the isRunning guard
SdStartUnguarded(caller) ==
  /\ sdRunning' = TRUE
  /\ IF ~historyLoaded
     THEN /\ sdLoads' = Append(sdLoads, caller)
          /\ UNCHANGED <<pmSdSubs, analysisInterval, sdIntervals, sdTimeouts>>
     ELSE /\ SdArm
          /\ UNCHANGED sdLoads

\* start() up to its first suspension, called by `caller`
SdStartCall(caller) ==
  IF sdRunning
  THEN UNCHANGED <<sdRunning, sdLoads, pmSdSubs, analysisInterval, sdIntervals, sdTimeouts>>
  ELSE /\ sdRunning' = TRUE
       /\ IF ~historyLoaded
          THEN /\ sdLoads' = Append(sdLoads, caller)
               /\ UNCHANGED <<pmSdSubs, analysisInterval, sdIntervals, sdTimeouts>>
          ELSE /\ SdArm
               /\ UNCHANGED sdLoads

\* stop()
SdStopCall ==
  /\ sdRunning' = FALSE
  /\ IF analysisInterval
     THEN /\ sdIntervals' = sdIntervals - 1
          /\ analysisInterval' = FALSE
     ELSE UNCHANGED <<sdIntervals, analysisInterval>>
  /\ UNCHANGED <<sdLoads, pmSdSubs, sdTimeouts>>

\* the bound on start(): passes that are suspended or have armed their timers
StartsLeft == pmSdSubs + Len(sdLoads) < MaxStarts

RemoveAt(s, i) == [j \in 1..(Len(s) - 1) |-> IF j < i THEN s[j] ELSE s[j + 1]]

\* the candle bucket of an event time
CandleTime(timestamp) == (timestamp \div candleInterval) * candleInterval

NewCandle(price, candleTime) ==
  [open |-> price, high |-> price, low |-> price, close |-> price,
   volume |-> 0, timestamp |-> candleTime]

\* C9 mutant: the push without the shift
PushWithoutShift(cs, c) == Append(cs, c)

\* candles.push(currentCandle), then shift() when the bound is exceeded
PushCandle(cs, c) ==
  LET pushed == Append(cs, c)
  IN IF Len(pushed) > maxCandles THEN Tail(pushed) ELSE pushed

\* processPrice on the detector's aggregation state st
processPrice(st, price, timestamp) ==
  LET candleTime == CandleTime(timestamp)
  IN IF candleTime > st.lastCandleTime
     THEN [candles |-> IF st.currentCandle # <<>>
                       THEN PushCandle(st.candles, st.currentCandle[1])
                       ELSE st.candles,
           currentCandle |-> <<NewCandle(price, candleTime)>>,
           lastCandleTime |-> candleTime]
     ELSE IF st.currentCandle # <<>>
     THEN [st EXCEPT !.currentCandle =
             <<[st.currentCandle[1] EXCEPT !.high = Max2(@, price),
                                           !.low = Min2(@, price),
                                           !.close = price]>>]
     ELSE st

\* the price monitor's callbacks.forEach: every registered processPrice runs
RECURSIVE DeliverPrice(_, _, _, _)
DeliverPrice(st, price, timestamp, k) ==
  IF k = 0 THEN st
  ELSE DeliverPrice(processPrice(st, price, timestamp), price, timestamp, k - 1)

AggState == [candles |-> candles, currentCandle |-> currentCandle,
             lastCandleTime |-> lastCandleTime]

\* loadHistoricalCandles after the fetch: the response maps to the new history
LoadedCandles(data) == data
LoadedLastCandleTime(data) == IF Len(data) > 0 THEN Last(data).timestamp ELSE lastCandleTime

\* C7 mutant: analyzeMarket without the minSignalInterval check
CooldownIgnored(t, last) == TRUE

\* analyzeMarket's two early returns
EnoughCandles(cs) == ~(Len(cs) < MinCandles)
CooldownOver(t, last) == ~(t - last < minSignalInterval)

\* analyzeMarket's computation: the signal (<<>> for none) and what it was computed from
Analysis(cs, cur) ==
  LET closes == Closes(cs)
      currentPrice == IF cur # <<>> /\ cur[1].close # 0 THEN cur[1].close ELSE Last(closes)
      ema20 == calculateEMA(closes, 20)
      ema50 == calculateEMA(closes, 50)
      rsi == calculateRSI(closes, 14)
      macd == calculateMACD(closes)
  IN [price |-> currentPrice, ema20 |-> ema20, ema50 |-> ema50, rsi |-> rsi,
      signal |-> detectSignal(currentPrice, ema20, ema50, rsi, macd, cs, cur)]

\* ---------------------------------------------------------- price monitor
\* Delays are held in units of 1 / DelayScale ms, which keeps
\* reconnectDelay * 1.5^n exact for every n up to maxReconnectAttempts.
DelayScale == 2 ^ 10

\* C13 mutant: a backoff that stays at the base delay
BackoffFlat(attempts) == reconnectDelay * DelayScale

\* reconnectDelay * Math.pow(1.5, attempts)
RECURSIVE BackoffDelay(_)
BackoffDelay(attempts) ==
  IF attempts = 0
  THEN reconnectDelay * DelayScale
  ELSE (BackoffDelay(attempts - 1) * 3) \div 2

\* a socket: its readyState, whether this.ws refers to it, and whether the
\* connection was established (its 'open' event has happened)
NewSocket == [state |-> "connecting", current |-> TRUE, opened |-> FALSE]
Uncurrent(sockets) == [i \in 1..Len(sockets) |-> [sockets[i] EXCEPT !.current = FALSE]]

\* C16 mutant: a connect() without the isRunning check
ConnectUnguarded(running) ==
  /\ pmSockets' = Append(Uncurrent(pmSockets), NewSocket)
  /\ pmConnects' = pmConnects + 1

\* connect(), with `running` the value of isRunning it finds
PmConnect(running) ==
  IF ~running
  THEN UNCHANGED <<pmSockets, pmConnects>>
  ELSE /\ pmSockets' = Append(Uncurrent(pmSockets), NewSocket)
       /\ pmConnects' = pmConnects + 1

\* start()
PmStartCall ==
  /\ IF pmRunning
     THEN UNCHANGED <<pmRunning, pmSockets, pmConnects>>
     ELSE /\ pmRunning' = TRUE
          /\ PmConnect(TRUE)
  /\ pmLastEvent' = "start"
  /\ UNCHANGED <<reconnectAttempts, pingInterval, pmPings, pmTimers, pmDrops>>

\* ws.close() on a socket in the given readyState
CloseCalled(state) == IF state \in {"connecting", "open"} THEN "closing" ELSE state

\* stop()
PmStopCall ==
  /\ pmRunning' = FALSE
  /\ IF pingInterval
     THEN /\ pmPings' = pmPings - 1
          /\ pingInterval' = FALSE
     ELSE UNCHANGED <<pmPings, pingInterval>>
  /\ pmSockets' = [i \in 1..Len(pmSockets) |->
                     IF pmSockets[i].current
                     THEN [pmSockets[i] EXCEPT !.state = CloseCalled(pmSockets[i].state),
                                               !.current = FALSE]
                     ELSE pmSockets[i]]
  /\ pmLastEvent' = "stop"
  /\ UNCHANGED <<reconnectAttempts, pmTimers, pmConnects, pmDrops>>

\* C14 mutant: a counter that scheduleReconnect always increments
AttemptsAlwaysIncremented(attempts) == attempts + 1

\* the timer scheduleReconnect sets, and the counter it leaves
ReconnectTimer(attempts, drop) ==
  IF attempts >= maxReconnectAttempts
  THEN [kind |-> "cooldown", delay |-> CooldownDelay * DelayScale, drop |-> drop]
  ELSE [kind |-> "backoff", delay |-> BackoffDelay(attempts), drop |-> drop]
AttemptsAfterSchedule(attempts) ==
  IF attempts >= maxReconnectAttempts THEN attempts ELSE attempts + 1

pmFrame == <<now, feedTime, sdVars, pmBotSubs, botVars, exVars, feedVars, logVars, runVars>>

\* serverPriceMonitor.start() called on the monitor as a unit
PmStart ==
  /\ ~pmRunning => pmConnects < MaxConnects /\ Len(pmSockets) + Len(pmTimers) < MaxLive
  /\ PmStartCall
  /\ UNCHANGED pmFrame

\* serverPriceMonitor.stop() called on the monitor as a unit
PmStop ==
  /\ PmStopCall
  /\ UNCHANGED pmFrame

\* C15 mutant: an 'open' handler that leaves the counter alone
AttemptsKept == reconnectAttempts

\* the counter the 'open' handler leaves
AttemptsAfterOpen == 0

\* a connecting socket opens: the 'open' handler
SocketOpen ==
  \E i \in 1..Len(pmSockets) :
    /\ pmSockets[i].state = "connecting"
    /\ pmSockets' = [pmSockets EXCEPT ![i].state = "open", ![i].opened = TRUE]
    /\ reconnectAttempts' = AttemptsAfterOpen
    /\ pingInterval' = TRUE
    /\ pmPings' = pmPings + 1
    /\ pmDrops' = 0
    /\ pmLastEvent' = "open"
    /\ UNCHANGED <<pmFrame, pmRunning, pmTimers, pmConnects>>

\* a socket closes (the connection fails or drops, or a close() completes):
\* the 'close' handler, with scheduleReconnect when isRunning
SocketClose ==
  \E i \in 1..Len(pmSockets) :
    /\ pmSockets' = RemoveAt(pmSockets, i)
    /\ IF pingInterval
       THEN /\ pmPings' = pmPings - 1
            /\ pingInterval' = FALSE
       ELSE UNCHANGED <<pmPings, pingInterval>>
    /\ IF pmRunning
       THEN /\ pmTimers' = Append(pmTimers, ReconnectTimer(reconnectAttempts, pmDrops + 1))
            /\ reconnectAttempts' = AttemptsAfterSchedule(reconnectAttempts)
            /\ pmDrops' = pmDrops + 1
            /\ pmLastEvent' = "drop"
       ELSE /\ UNCHANGED <<pmTimers, reconnectAttempts, pmDrops>>
            /\ pmLastEvent' = "close"
    /\ UNCHANGED <<pmFrame, pmRunning, pmConnects>>

\* a socket whose 'message' handler can still be called: an established
\* connection that is open, or closing with the close handshake under way
Receives(socket) == socket.opened /\ socket.state \in {"open", "closing"}

\* C29 mutant: a 60 s timer that is never set, so that only backoff timers fire
ReconnectFireBackoffOnly ==
  \E j \in 1..Len(pmTimers) :
    /\ pmTimers[j].kind = "backoff"
    /\ pmRunning => pmConnects < MaxConnects
    /\ pmTimers' = RemoveAt(pmTimers, j)
    /\ UNCHANGED <<reconnectAttempts, pmDrops>>
    /\ PmConnect(pmRunning)
    /\ pmLastEvent' = IF pmRunning THEN pmTimers[j].kind ELSE "suppressed"
    /\ UNCHANGED <<pmFrame, pmRunning, pingInterval, pmPings>>

\* a timer of scheduleReconnect fires: connect(), after the reset when it is
\* the 60 s one
ReconnectFire ==
  \E j \in 1..Len(pmTimers) :
    /\ pmRunning => pmConnects < MaxConnects
    /\ pmTimers' = RemoveAt(pmTimers, j)
    /\ IF pmTimers[j].kind = "cooldown"
       THEN reconnectAttempts' = 0 /\ pmDrops' = 0
       ELSE UNCHANGED <<reconnectAttempts, pmDrops>>
    /\ PmConnect(pmRunning)
    /\ pmLastEvent' = IF pmRunning THEN pmTimers[j].kind ELSE "suppressed"
    /\ UNCHANGED <<pmFrame, pmRunning, pingInterval, pmPings>>

\* C5 mutant: an executor that always reports credentials
isConfiguredAlways == TRUE

\* --------------------------------------------------------------- executor
isConfigured ==
  exConfig # <<>> /\ exConfig[1].apiKey # "" /\ exConfig[1].apiSecret # ""

\* configure(config)
ExConfigure(config) ==
  /\ exConfig' = <<config>>
  /\ exBaseUrl' = IF config.testnet THEN "https://testnet.binancefuture.com"
                  ELSE "https://fapi.binance.com"
  /\ UNCHANGED <<exCall, exTrace, exReturn>>

\* C21 mutant: a quantity rounded up to the next thousandth
PositionSizeRoundedUp(balance, accountPercentage, entryPrice, leverage) ==
  (balance * accountPercentage * leverage * 10 + entryPrice - 1) \div entryPrice

\* calculatePositionSize after getBalance: the quantity in thousandths of a BTC,
\* Math.floor(balance * (accountPercentage / 100) * leverage / entryPrice * 1000)
PositionSizeMilli(balance, accountPercentage, entryPrice, leverage) ==
  (balance * accountPercentage * leverage * 10) \div entryPrice

\* the position list getOpenPositions returns: the BTCUSDT position when the
\* request succeeds and the venue holds one, nothing when the request fails
ExistingPosition(ok, held) == ok /\ held

\* ------------------------------------------------- the executor as a unit
\* A venue response: response.ok, the code and the msg of an error body (msg
\* as its words, <<>> when the body has none), the positionAmt of BTCUSDT in a
\* positionRisk answer (thousandths of a BTC, 0 when there is no position), and
\* the USDT availableBalance of a balance answer.
Response(ok, code, msg, positionAmt, available) ==
  [ok |-> ok, code |-> code, msg |-> msg, positionAmt |-> positionAmt,
   available |-> available]

ErrorBodies ==
  {<<0 - 4028, <<"Leverage", "not", "changed.">>>>,
   <<0 - 4028, <<"code", "-4028">>>>,
   <<0 - 4046, <<"No", "need", "to", "change", "margin", "type.">>>>,
   <<0 - 4046, <<"code", "-4046">>>>,
   <<0 - 2019, <<"Margin", "is", "insufficient.">>>>,
   <<0 - 1000, <<>>>>}
ErrorResponses == {Response(FALSE, e[1], e[2], 0, 0) : e \in ErrorBodies}
UnitBalances == {0, 1000 * Scale, 333 * Scale + 3, 1}
UnitAmounts == {0, 30, 0 - 30}
OkResponses(endpoint) ==
  IF endpoint = "positionRisk" THEN {Response(TRUE, 0, <<>>, p, 0) : p \in UnitAmounts}
  ELSE IF endpoint = "balance" THEN {Response(TRUE, 0, <<>>, 0, a) : a \in UnitBalances}
  ELSE {Response(TRUE, 0, <<>>, 0, 0)}
Responses(endpoint) == OkResponses(endpoint) \cup ErrorResponses

\* what request() throws without a config, before any fetch
NotConfigured == Response(FALSE, 0, <<"Binance", "nao", "configurada">>, 0, 0)

\* request(): the message of the Error thrown on a non-2xx response
ErrorMessage(resp) == IF resp.msg # <<>> THEN resp.msg ELSE <<"HTTP", "400">>
\* error.message?.includes(text)
Includes(message, text) == \E i \in 1..Len(message) : message[i] = text

\* the catch blocks of setLeverage and setMarginType
AlreadySet(resp, text) == Includes(ErrorMessage(resp), text)
setLeverage(resp) == resp.ok \/ AlreadySet(resp, "-4028")
setMarginType(resp) == resp.ok \/ AlreadySet(resp, "-4046")
\* getBalance
getBalance(resp) == IF resp.ok THEN resp.available ELSE 0

\* C30 mutant: a quantity test that lets zero through
QuantityNegative(quantity) == quantity < 0

\* executeSignal: if (quantity <= 0)
QuantityInvalid(quantity) == quantity <= 0

Failure(error) == [success |-> FALSE, error |-> error]
Done(value) == [done |-> TRUE, value |-> value, pc |-> "", quantity |-> 0, side |-> ""]
Await(pc, quantity, side) ==
  [done |-> FALSE, value |-> FALSE, pc |-> pc, quantity |-> quantity, side |-> side]

\* getOpenPositions: the positions with a non-zero amount, none when the request fails
getOpenPositions(resp) == IF resp.ok /\ resp.positionAmt # 0 THEN <<resp.positionAmt>> ELSE <<>>

\* C31 mutant: a closing order on the side of the position
SameSide(positionAmt) == IF positionAmt > 0 THEN "BUY" ELSE "SELL"

\* closePosition: const side = positionAmt > 0 ? 'SELL' : 'BUY'
ClosingSide(positionAmt) == IF positionAmt > 0 THEN "SELL" ELSE "BUY"
\* executeSignal: const side = signal.type === 'LONG' ? 'BUY' : 'SELL'
OpeningSide(type) == IF type = "LONG" THEN "BUY" ELSE "SELL"

\* C26 mutant: an executeSignal that asks for the balance before the settings
AfterPositionsBalance == "balance"

\* executeSignal: what follows the position query
AfterPositions == "leverage"

\* the call goes on with the answer to the request it awaits (call.pc)
StepCall(call, resp) ==
  IF call.pc = "positionRisk" /\ call.method = "closePosition"
  THEN LET positions == getOpenPositions(resp)
       IN IF positions = <<>>
          THEN Done(Failure(<<"Posicao", "nao", "encontrada">>))
          ELSE Await("order", Abs(positions[1]), ClosingSide(positions[1]))
  ELSE IF call.pc = "positionRisk"
  THEN IF ExistingPosition(resp.ok, resp.positionAmt # 0)
       THEN Done(Failure(<<"Posicao", "ja", "aberta">>))
       ELSE Await(AfterPositions, 0, "")
  ELSE IF call.pc = "leverage"
  THEN IF call.method = "setLeverage" THEN Done(setLeverage(resp))
       ELSE Await("marginType", 0, "")
  ELSE IF call.pc = "marginType"
  THEN IF call.method = "setMarginType" THEN Done(setMarginType(resp))
       ELSE Await("balance", 0, "")
  ELSE IF call.pc = "balance"
  THEN LET quantity == PositionSizeMilli(getBalance(resp), call.args.accountPercentage,
                                         call.args.entryPrice, call.args.leverage)
       IN IF call.method = "calculatePositionSize" THEN Done(quantity)
          ELSE IF QuantityInvalid(quantity)
          THEN Done(Failure(<<"Quantidade", "invalida">>))
          ELSE Await("order", quantity, OpeningSide(call.args.type))
  ELSE IF resp.ok THEN Done([success |-> TRUE, error |-> <<>>])
       ELSE Done(Failure(ErrorMessage(resp)))

\* the arguments of the calls on the executor as a unit
UnitArgs ==
  {[type |-> t, entryPrice |-> p, accountPercentage |-> a, leverage |-> l] :
     t \in {"LONG"}, p \in {BasePrice, 3 * Scale}, a \in {10, 100}, l \in {1, 15}}
UnitMethods ==
  {"setLeverage", "setMarginType", "calculatePositionSize", "executeSignal", "closePosition"}

\* the first request of a method
FirstRequest(method) ==
  IF method = "setLeverage" THEN "leverage"
  ELSE IF method = "setMarginType" THEN "marginType"
  ELSE IF method = "calculatePositionSize" THEN "balance"
  ELSE "positionRisk"

\* what request() reads when it is called: this.config and this.baseUrl
Access == <<exConfig, exBaseUrl>>

\* a call in progress: its arguments, the request it awaits (pc), the locals
\* `quantity` and `side` once computed, the answer it received last, and as
\* history what its setLeverage and setMarginType returned (settings) and the
\* config and baseUrl its requests were made with (accesses)
NewCall(method, args) ==
  [method |-> method, args |-> args, pc |-> FirstRequest(method), quantity |-> 0,
   side |-> "", answer |-> <<>>, settings |-> <<>>, accesses |-> {Access}]

\* what executeSignal's `await this.setLeverage(...)` and `await
\* this.setMarginType(...)` returned, in order; executeSignal keeps neither
SettingsAfter(call, resp) ==
  IF call.method # "executeSignal" THEN call.settings
  ELSE IF call.pc = "leverage" THEN Append(call.settings, setLeverage(resp))
  ELSE IF call.pc = "marginType" THEN Append(call.settings, setMarginType(resp))
  ELSE call.settings
RequestEvent(endpoint) == <<"request", endpoint>>
ResponseEvent(endpoint) == <<"response", endpoint>>

\* a call without a config: every request() throws before its fetch, so the
\* call runs to its return at once
RECURSIVE RunUnconfigured(_)
RunUnconfigured(call) ==
  LET step == StepCall(call, NotConfigured)
  IN IF step.done THEN step.value
     ELSE RunUnconfigured([call EXCEPT !.pc = step.pc, !.quantity = step.quantity,
                                       !.side = step.side])

unitFrame == <<now, feedTime, sdVars, pmVars, botVars, runVars, feedVars, logVars>>

\* serverBinanceExecutor.configure called on the executor as a unit
ExConfigureUnit ==
  /\ \E c \in Credentials, testnet \in BOOLEAN :
       ExConfigure([apiKey |-> c[1], apiSecret |-> c[2], testnet |-> testnet])
  /\ UNCHANGED unitFrame

\* a method of the executor is called, up to its first await
ExCall ==
  \E method \in UnitMethods, args \in UnitArgs :
    LET call == NewCall(method, args)
    IN /\ exCall = <<>>
       /\ IF exConfig = <<>>
          THEN /\ exCall' = <<>>
               /\ exTrace' = <<>>
               /\ exReturn' = <<[method |-> method, args |-> args, answer |-> <<>>,
                                 value |-> RunUnconfigured(call)]>>
          ELSE /\ exCall' = <<call>>
               /\ exTrace' = <<RequestEvent(call.pc)>>
               /\ exReturn' = <<>>
       /\ UNCHANGED <<unitFrame, exConfig, exBaseUrl>>

\* the venue answers the request the call awaits, and the call goes on to its
\* next request or to its return
ExResponse ==
  /\ exCall # <<>>
  /\ \E resp \in Responses(exCall[1].pc) :
    LET call == exCall[1]
        step == StepCall(call, resp)
        answered == Append(exTrace, ResponseEvent(call.pc))
    IN /\ IF step.done
          THEN /\ exCall' = <<>>
               /\ exTrace' = answered
               /\ exReturn' = <<[method |-> call.method, args |-> call.args,
                                 answer |-> <<resp>>, value |-> step.value]>>
          ELSE /\ exCall' = <<[call EXCEPT !.pc = step.pc, !.quantity = step.quantity,
                                           !.side = step.side, !.answer = <<resp>>,
                                           !.settings = SettingsAfter(call, resp),
                                           !.accesses = call.accesses \cup {Access}]>>
               /\ exTrace' = Append(answered, RequestEvent(step.pc))
               /\ UNCHANGED exReturn
       /\ UNCHANGED <<unitFrame, exConfig, exBaseUrl>>

\* -------------------------------------------------------------------- bot
\* configure(config)
BotConfigure(config) ==
  /\ botConfig' = <<config>>
  /\ IF config.apiKey # "" /\ config.apiSecret # ""
     THEN ExConfigure([apiKey |-> config.apiKey, apiSecret |-> config.apiSecret,
                       testnet |-> config.testnet])
     ELSE UNCHANGED exVars

lifecycleVars == <<botRunning, pmVars, timerVars, sdCallbacks>>

\* start(): to the end when the detector's start() returns at once, else up to
\* `await serverSignalDetector.start()`; the rest runs when the load settles
BotStartCall(req) ==
  IF botRunning
  THEN UNCHANGED lifecycleVars
  ELSE /\ botRunning' = TRUE
       /\ PmStartCall
       /\ pmBotSubs' = pmBotSubs + 1
       /\ SdStartCall(BotCaller(req))
       /\ sdCallbacks' = IF SdStartReturnsAtOnce THEN sdCallbacks + 1 ELSE sdCallbacks

\* stop()
BotStopCall ==
  IF ~botRunning
  THEN UNCHANGED lifecycleVars
  ELSE /\ botRunning' = FALSE
       /\ PmStopCall
       /\ SdStopCall
       /\ UNCHANGED <<pmBotSubs, sdCallbacks>>

\* C3 mutant: a gate that asks for a policy but not for `enabled`
PolicyPresent(policy) == policy # <<>>

\* C1 mutant: a gate that never finds the score too low
ScoreNeverTooLow(score, config) == FALSE

\* handleSignal's gates, in the order of the code
PolicyEnabled(policy) == policy # <<>> /\ policy[1].enabled
MinScoreOf(config) == IF config.minScore # 0 THEN config.minScore ELSE DefaultMinScore
ScoreTooLow(score, config) == score < MinScoreOf(config)
IntervalActive(t, last) == t - last < minOrderInterval

GateOutcome(signal) ==
  IF ~PolicyEnabled(botConfig) THEN "disabled"
  ELSE IF ScoreTooLow(signal.score, botConfig[1]) THEN "lowScore"
  ELSE IF IntervalActive(now, lastOrderTime) THEN "interval"
  ELSE IF ~isConfigured THEN "notifyOnly"
  ELSE "execute"

\* a handleSignal call that reached executeSignal: `now` of the gate, the
\* arguments of executeSignal, and the venue request it awaits (pc)
NewHandler(signal) ==
  [gateNow |-> now,
   type |-> signal.type,
   entryPrice |-> signal.entryPrice,
   accountPercentage |-> IF botConfig[1].accountPercentage # 0
                         THEN botConfig[1].accountPercentage
                         ELSE DefaultAccountPercentage,
   leverage |-> IF botConfig[1].leverage # 0 THEN botConfig[1].leverage
                ELSE DefaultLeverage,
   posAtCall |-> venuePosition,
   pc |-> "positionRisk"]

\* C6 mutant: the order counter incremented whatever the result
TotalOrdersCountsAll(success, total) == total + 1

\* the result branch of handleSignal
OrderTimeAfter(success, gateNow, last) == IF success THEN gateNow ELSE last
TotalOrdersAfter(success, total) == IF success THEN total + 1 ELSE total

\* executeSignal returns `result` to handler i, and handleSignal runs to its end
Finish(i, success, error) ==
  LET h == handlers[i]
  IN /\ handlers' = RemoveAt(handlers, i)
     /\ lastResult' = <<[success |-> success, error |-> error]>>
     /\ successes' = IF success THEN successes + 1 ELSE successes
     /\ lastOrderTime' = OrderTimeAfter(success, h.gateNow, lastOrderTime)
     /\ totalOrders' = TotalOrdersAfter(success, totalOrders)

Proceed(i, pc) ==
  /\ handlers' = [handlers EXCEPT ![i].pc = pc]
  /\ UNCHANGED <<lastResult, successes, lastOrderTime, totalOrders>>

\* ------------------------------------------------------------ the bot's log
\* C25 mutant: addLog without the slice
addLogUnbounded(log, entry) == <<entry>> \o log

\* addLog: this.logs.unshift(log), then slice(0, maxLogs) when it is too long
addLog(log, entry) ==
  LET longer == <<entry>> \o log
  IN IF Len(longer) > maxLogs THEN SubSeq(longer, 1, maxLogs) ELSE longer

\* the addLog calls made so far (history, carried by the entries as nth)
Logged(log) == IF log = <<>> THEN 0 ELSE log[1].nth

\* the BotLog of an addLog call: Date.now(), the type, the message (its kind)
BotLog(log, type, message) ==
  [timestamp |-> now, type |-> type, message |-> message, nth |-> Logged(log) + 1]

RECURSIVE AddLogs(_, _)
AddLogs(log, calls) ==
  IF calls = <<>> THEN log
  ELSE AddLogs(addLog(log, BotLog(log, calls[1][1], calls[1][2])), Tail(calls))

\* the addLog calls of handleSignal up to its return or its await, per gate
GateLogs(outcome) ==
  <<<<"signal", "detected">>>> \o
  (IF outcome = "disabled" THEN <<<<"info", "disabled">>>>
   ELSE IF outcome = "lowScore" THEN <<<<"info", "low score">>>>
   ELSE IF outcome = "interval" THEN <<<<"info", "interval">>>>
   ELSE IF outcome = "notifyOnly" THEN <<<<"info", "not configured">>>>
   ELSE <<<<"order", "executing">>>>)
GateOutcomes == {"disabled", "lowScore", "interval", "notifyOnly", "execute"}

\* the addLog call of handleSignal's result branch
ResultLog(success) == IF success THEN <<"order", "executed">> ELSE <<"error", "failed">>

logFrame == <<now, feedTime, sdVars, pmVars, botVars, exVars, runVars, feedVars>>

\* start() on a stopped bot, as far as the log goes
LogStart ==
  /\ logRare < MaxLogRare /\ Logged(logs) < MaxLogged
  /\ logs' = AddLogs(logs, <<<<"info", "started">>>>)
  /\ logRare' = logRare + 1
  /\ UNCHANGED <<logFrame, logOpen>>

\* handleSignal(signal) up to its return or to `await executeSignal(...)`, as
\* far as the log goes
LogSignal ==
  \E outcome \in GateOutcomes :
    /\ outcome # "disabled" => logRare < MaxLogRare
    /\ Logged(logs) + 2 <= MaxLogged
    /\ logs' = AddLogs(logs, GateLogs(outcome))
    /\ logRare' = IF outcome # "disabled" THEN logRare + 1 ELSE logRare
    /\ logOpen' = IF outcome = "execute" THEN logOpen + 1 ELSE logOpen
    /\ UNCHANGED logFrame

\* executeSignal returns and handleSignal runs to its end, as far as the log goes
LogResult ==
  \E success \in BOOLEAN :
    /\ logOpen > 0 /\ Logged(logs) < MaxLogged
    /\ logs' = AddLogs(logs, <<ResultLog(success)>>)
    /\ logOpen' = logOpen - 1
    /\ UNCHANGED <<logFrame, logRare>>

\* ----------------------------------------------------------------- actions
restOfLifecycle == <<now, feedTime, aggVars, lastSignalTime, historyLoaded, lastEmit,
                     lastOrderTime, totalOrders, botCurrentPrice, runVars>>

\* routers.ts bot.configure: configure(input), then start() or stop()
ApiConfigure ==
  \E config \in BotConfigs :
    /\ config.enabled /\ ~botRunning /\ ~sdRunning => StartsLeft
    /\ BotConfigure(config)
    /\ IF config.enabled THEN BotStartCall(<<config>>) ELSE BotStopCall
    /\ UNCHANGED <<restOfLifecycle, feedVars, logVars>>

\* routers.ts bot.start, and the start at boot (_core/index.ts)
ApiStart ==
  /\ ~botRunning /\ ~sdRunning => StartsLeft
  /\ BotStartCall(<<>>)
  /\ UNCHANGED <<restOfLifecycle, botConfig, exVars, feedVars, logVars>>

\* routers.ts bot.stop
ApiStop ==
  /\ BotStopCall
  /\ UNCHANGED <<restOfLifecycle, botConfig, exVars, feedVars, logVars>>

\* serverSignalDetector.start() called on the detector as a unit
SdStart(limit) ==
  /\ ~sdRunning => pmSdSubs + Len(sdLoads) < limit
  /\ SdStartCall(ApiCaller)
  /\ UNCHANGED <<now, feedTime, aggVars, sdCallbacks, lastSignalTime, historyLoaded,
                 lastEmit, pmVars, botVars, exVars, feedVars, logVars, runVars>>

\* serverSignalDetector.stop() called on the detector as a unit
SdStop ==
  /\ SdStopCall
  /\ UNCHANGED <<now, feedTime, aggVars, sdCallbacks, lastSignalTime, historyLoaded,
                 lastEmit, pmVars, botVars, exVars, feedVars, logVars, runVars>>

\* the klines fetch of a suspended start() succeeds: loadHistoricalCandles
\* replaces the history, start() arms, and a bot waiting on it registers onSignal
SdLoadOk(kinds) ==
  \E i \in 1..Len(sdLoads), k \in kinds :
    LET data == Seed(k[1], k[2], feedTime)
    IN /\ candles' = LoadedCandles(data)
       /\ lastCandleTime' = LoadedLastCandleTime(data)
       /\ historyLoaded' = TRUE
       /\ SdArm
       /\ sdLoads' = RemoveAt(sdLoads, i)
       /\ sdCallbacks' = IF sdLoads[i].by = "bot" THEN sdCallbacks + 1 ELSE sdCallbacks
       /\ UNCHANGED <<now, feedTime, currentCandle, lastSignalTime, sdRunning, lastEmit,
                      pmVars, botVars, exVars, feedVars, logVars, runVars>>

\* C27 mutant: a seeding failure that ends start() where it is
SdLoadFailAborts ==
  \E i \in 1..Len(sdLoads) :
    /\ sdLoads' = RemoveAt(sdLoads, i)
    /\ UNCHANGED <<now, feedTime, aggVars, historyLoaded, lastSignalTime, sdRunning,
                   pmSdSubs, analysisInterval, sdIntervals, sdTimeouts, sdCallbacks,
                   lastEmit, pmVars, botVars, exVars, feedVars, logVars, runVars>>

\* the klines fetch fails or answers non-2xx: the catch block, then start() goes on
SdLoadFail ==
  \E i \in 1..Len(sdLoads) :
    /\ SdArm
    /\ sdLoads' = RemoveAt(sdLoads, i)
    /\ sdCallbacks' = IF sdLoads[i].by = "bot" THEN sdCallbacks + 1 ELSE sdCallbacks
    /\ UNCHANGED <<now, feedTime, aggVars, historyLoaded, lastSignalTime, sdRunning,
                   lastEmit, pmVars, botVars, exVars, feedVars, logVars, runVars>>

\* A feed message: whether JSON.parse accepts its text and, when it does, the
\* field c (the last price) of the object: absent, a text that is no number,
\* or the text of a number.
Message(parses, kind, value) == [parses |-> parses, c |-> [kind |-> kind, value |-> value]]
Unparseable == Message(FALSE, "absent", 0)
NoPrice == Message(TRUE, "absent", 0)
TextPrice == Message(TRUE, "text", 0)
Ticker(price) == Message(TRUE, "number", price)
Malformed == {Unparseable, NoPrice, TextPrice}

\* parseFloat(ticker.c): the number, or NaN (<<>>)
parseFloat(c) == IF c.kind = "number" THEN <<c.value>> ELSE <<>>

\* C24 mutant: callbacks.forEach without the try/catch around each call
RECURSIVE ForEachUncaught(_, _, _)
ForEachUncaught(count, i, throwers) ==
  IF i > count THEN {}
  ELSE IF i \in throwers THEN {i}
  ELSE {i} \cup ForEachUncaught(count, i + 1, throwers)

\* callbacks.forEach(cb => { try { cb(event) } catch (err) { ... } }) from the
\* i-th callback on: the callbacks that are called, when `throwers` throw
RECURSIVE ForEachCaught(_, _, _)
ForEachCaught(count, i, throwers) ==
  IF i > count THEN {}
  ELSE {i} \cup ForEachCaught(count, i + 1, throwers)

\* the latest call of each foreign callback after an event went through forEach
Called(foreign, event, throwers, called) ==
  [i \in 1..Len(foreign) |->
     IF i \in called THEN <<[event |-> event, threw |-> i \in throwers]>> ELSE foreign[i]]

\* ws.on('message'): the price monitor parses a feed message and delivers the
\* tick to its callbacks (processPrice is modelled for prices that are numbers)
OnMessage(messages, limit) ==
  \E message \in messages, off \in TickOffsets, throwers \in SUBSET (1..Len(pmForeign)) :
    LET timestamp == feedTime + off
        price == parseFloat(message.c)
        priceData == [price |-> price, timestamp |-> timestamp]
        st == IF pmSdSubs = 0 THEN AggState
              ELSE DeliverPrice(AggState, price[1], timestamp, pmSdSubs)
    IN /\ CandleTime(timestamp) <= limit
       /\ IF message.parses
          THEN /\ feedTime' = Max2(feedTime, CandleTime(timestamp))
               /\ lastPrice' = <<priceData>>
               /\ candles' = st.candles
               /\ currentCandle' = st.currentCandle
               /\ lastCandleTime' = st.lastCandleTime
               /\ botCurrentPrice' = IF pmBotSubs > 0 THEN price[1] ELSE botCurrentPrice
               /\ pmForeign' = Called(pmForeign, priceData, throwers,
                                      ForEachCaught(Len(pmForeign), 1, throwers))
          ELSE UNCHANGED <<feedTime, lastPrice, aggVars, botCurrentPrice, pmForeign>>
       /\ UNCHANGED <<now, sdCallbacks, lastSignalTime, historyLoaded, lastEmit, timerVars,
                      pmVars, botConfig, botRunning, lastOrderTime, totalOrders, exVars,
                      runVars, sdForeign, logVars>>

\* the feed sends a ticker whose last price is a number
PriceTick(prices, limit) == OnMessage({Ticker(price) : price \in prices}, limit)

\* onPrice(callback) and onSignal(callback) called with a foreign callback
OnPriceForeign ==
  /\ Len(pmForeign) < MaxForeign
  /\ pmForeign' = Append(pmForeign, <<>>)
  /\ UNCHANGED <<now, feedTime, sdVars, pmVars, botVars, exVars, runVars, lastPrice,
                 sdForeign, logVars>>

OnSignalForeign ==
  /\ Len(sdForeign) < MaxForeign
  /\ sdForeign' = Append(sdForeign, <<>>)
  /\ UNCHANGED <<now, feedTime, sdVars, pmVars, botVars, exVars, runVars, lastPrice,
                 pmForeign, logVars>>

\* analyzeMarket, with the synchronous part of every registered handleSignal
AnalyzeMarket ==
  LET a == Analysis(candles, currentCandle)
  IN IF EnoughCandles(candles) /\ CooldownOver(now, lastSignalTime) /\ a.signal # <<>>
     THEN LET signal == a.signal[1]
              outcome == GateOutcome(signal)
              calls == IF outcome = "execute" THEN sdCallbacks ELSE 0
          IN /\ lastSignalTime' = now
             /\ lastEmit' = <<[at |-> now, prev |-> lastSignalTime,
                               bars |-> Len(candles), price |-> a.price,
                               ema20 |-> a.ema20, ema50 |-> a.ema50, signal |-> signal,
                               delivered |-> sdCallbacks,
                               outcome |-> IF sdCallbacks > 0 THEN outcome ELSE "none"]>>
             /\ handlers' = handlers \o [j \in 1..calls |-> NewHandler(signal)]
             /\ \E throwers \in SUBSET (1..Len(sdForeign)) :
                  sdForeign' = Called(sdForeign, [at |-> now, signal |-> signal], throwers,
                                      ForEachCaught(Len(sdForeign), 1, throwers))
     ELSE UNCHANGED <<lastSignalTime, lastEmit, handlers, sdForeign>>

analysisFrame == <<now, feedTime, aggVars, sdCallbacks, historyLoaded, sdRunning, sdLoads,
                   pmSdSubs, analysisInterval, sdIntervals, pmVars, botVars, exVars,
                   venuePosition, lastResult, successes, lastPrice, pmForeign, logVars>>

\* a setInterval(60 s) timer of the detector fires
SdIntervalFire ==
  /\ sdIntervals > 0
  /\ Len(handlers) + sdCallbacks <= MaxExec
  /\ AnalyzeMarket
  /\ UNCHANGED <<analysisFrame, sdTimeouts>>

\* a setTimeout(5 s) timer of the detector fires
SdTimeoutFire ==
  /\ sdTimeouts > 0
  /\ Len(handlers) + sdCallbacks <= MaxExec
  /\ sdTimeouts' = sdTimeouts - 1
  /\ AnalyzeMarket
  /\ UNCHANGED analysisFrame

execFrame == <<now, feedTime, sdVars, pmVars, botConfig, botRunning, botCurrentPrice, exVars,
               feedVars, logVars>>

\* the venue answers /fapi/v2/positionRisk, or the request fails
PositionsResponse ==
  \E i \in 1..Len(handlers), ok \in BOOLEAN :
    /\ handlers[i].pc = "positionRisk"
    /\ IF ExistingPosition(ok, venuePosition)
       THEN Finish(i, FALSE, "Posicao ja aberta")
       ELSE Proceed(i, "balance")
    /\ UNCHANGED <<execFrame, venuePosition>>

\* the venue answers /fapi/v1/leverage and /fapi/v1/marginType, or those requests
\* fail (executeSignal looks at neither result), and then it answers
\* /fapi/v2/balance (getBalance returns 0 when that fails)
BalanceResponse ==
  \E i \in 1..Len(handlers), leverageOk \in BOOLEAN, marginOk \in BOOLEAN,
     ok \in BOOLEAN, available \in Balances :
    LET h == handlers[i]
        balance == IF ok THEN available ELSE 0
        quantity == PositionSizeMilli(balance, h.accountPercentage, h.entryPrice, h.leverage)
    IN /\ h.pc = "balance"
       /\ IF QuantityInvalid(quantity)
          THEN Finish(i, FALSE, "Quantidade invalida")
          ELSE Proceed(i, "order")
       /\ UNCHANGED <<execFrame, venuePosition>>

\* the venue answers /fapi/v1/order: the fill, or a rejection
OrderResponse ==
  \E i \in 1..Len(handlers), ok \in BOOLEAN :
    /\ handlers[i].pc = "order"
    /\ Finish(i, ok, IF ok THEN "" ELSE "venue error")
    /\ venuePosition' = (venuePosition \/ ok)
    /\ UNCHANGED execFrame

\* a position in BTCUSDT is opened on the account by other means
PositionOpenedElsewhere ==
  /\ ~venuePosition
  /\ venuePosition' = TRUE
  /\ UNCHANGED <<execFrame, handlers, lastResult, successes, lastOrderTime, totalOrders>>

\* time passes; a pending setTimeout fires before its delay is exceeded
AdvanceTime ==
  /\ now < MaxNow
  /\ sdTimeouts > 0 => TimeStep < FirstAnalysisDelay
  /\ now' = now + TimeStep
  /\ UNCHANGED <<feedTime, sdVars, pmVars, botVars, exVars, feedVars, logVars, runVars>>

\* ---------------------------------------------------------- specifications
BotSeeds == {<<"rally", MinCandles>>, <<"drift", MinCandles>>}
FeedLimitShort == FeedStart + MaxFeedBuckets * candleInterval

LoadOkEngine == SdLoadOk(SeedKinds)
LoadOkBot == SdLoadOk(BotSeeds)
TickEngine == PriceTick(TickPrices, FeedLimitShort)
StartEngine == SdStart(MaxEngineStarts)
StartSeeding == SdStart(MaxStarts)
SeedingSeeds == {<<"rally", SeedLimit>>, <<"rally", MinCandles - 1>>}
LoadOkSeeding == SdLoadOk(SeedingSeeds)

\* the detector as a unit: its start/stop, the feed, its timers, the clock
NextEngine ==
  \/ StartEngine
  \/ SdStop
  \/ LoadOkEngine
  \/ SdLoadFail
  \/ TickEngine
  \/ SdIntervalFire
  \/ SdTimeoutFire
  \/ AdvanceTime

SpecEngine == Init /\ [][NextEngine]_vars

\* the detector's start/stop, its seeding and the feed, with overlapping starts
NextSeeding ==
  \/ StartSeeding
  \/ SdStop
  \/ LoadOkSeeding
  \/ SdLoadFail
  \/ TickEngine

SpecSeeding == Init /\ [][NextSeeding]_vars

\* the bot with the detector and the executor: the API layer, the timers, the venue
NextBot ==
  \/ ApiConfigure
  \/ ApiStart
  \/ ApiStop
  \/ LoadOkBot
  \/ SdLoadFail
  \/ SdIntervalFire
  \/ SdTimeoutFire
  \/ PositionsResponse
  \/ BalanceResponse
  \/ OrderResponse
  \/ PositionOpenedElsewhere
  \/ AdvanceTime

SpecBot == Init /\ [][NextBot]_vars

\* one start of the detector and a long feed: the history fills up to its bound
HistorySeeds == {<<"rally", SeedLimit>>}
LoadOkHistory == SdLoadOk(HistorySeeds)
TickHistory == PriceTick({HighPrice}, FeedStart + MaxFeedLong * candleInterval)

NextHistory ==
  \/ StartEngine
  \/ SdStop
  \/ LoadOkHistory
  \/ SdLoadFail
  \/ TickHistory

SpecHistory == Init /\ [][NextHistory]_vars

\* the price monitor as a unit: its start/stop, its sockets, its timers
NextMonitor ==
  \/ PmStart
  \/ PmStop
  \/ SocketOpen
  \/ SocketClose
  \/ ReconnectFire

SpecMonitor == Init /\ [][NextMonitor]_vars

\* the monitor with its feed: the sockets deliver messages to foreign callbacks
StreamMessages == {Ticker(BasePrice)}
SocketMessage ==
  /\ \E i \in 1..Len(pmSockets) : Receives(pmSockets[i])
  /\ OnMessage(StreamMessages, FeedLimitShort)

NextStream ==
  \/ PmStart
  \/ PmStop
  \/ SocketOpen
  \/ SocketClose
  \/ ReconnectFire
  \/ SocketMessage
  \/ OnPriceForeign

SpecStream == Init /\ [][NextStream]_vars

\* the same, with the event loop running every timer that has been set
SpecMonitorLive == Init /\ [][NextMonitor]_vars /\ WF_vars(ReconnectFire)

\* start() calls only, on the monitor, the detector and the bot, in any order
\* and number, with the events that follow them
NextStarts ==
  \/ PmStart
  \/ StartSeeding
  \/ ApiStart
  \/ LoadOkSeeding
  \/ SdLoadFail
  \/ SocketOpen
  \/ TickEngine

SpecStarts == Init /\ [][NextStarts]_vars

\* the executor as a unit: configure, one call at a time, the venue's answers
NextExecutor ==
  \/ ExConfigureUnit
  \/ ExCall
  \/ ExResponse

SpecExecutor == Init /\ [][NextExecutor]_vars

\* the price monitor's message handler as a unit: any message, foreign callbacks
FeedMessages == Malformed \cup {Ticker(price) : price \in TickPrices}
FeedMessage == OnMessage(FeedMessages, FeedLimitShort)

NextFeed ==
  \/ FeedMessage
  \/ OnPriceForeign

SpecFeed == Init /\ [][NextFeed]_vars

\* the bot's log through a long run of the bot's operations
NextLog ==
  \/ LogStart
  \/ LogSignal
  \/ LogResult

SpecLog == Init /\ [][NextLog]_vars

\* the detector and the feed with foreign callbacks on both
DeliverySeeds == {<<"rally", SeedLimit>>}
LoadOkDelivery == SdLoadOk(DeliverySeeds)

NextDelivery ==
  \/ StartEngine
  \/ LoadOkDelivery
  \/ TickEngine
  \/ SdIntervalFire
  \/ SdTimeoutFire
  \/ AdvanceTime
  \/ OnPriceForeign
  \/ OnSignalForeign

SpecDelivery == Init /\ [][NextDelivery]_vars

\* ----------------------------------------------------------------- claims
\* an emission step of analyzeMarket: the step that replaces lastEmit
Emission == lastEmit' # lastEmit
\* a step in which an executeSignal call returns and its handleSignal ends
Returned == Len(handlers') < Len(handlers)
BotUntouched == handlers' = handlers /\ lastOrderTime' = lastOrderTime /\ totalOrders' = totalOrders

\* C1: when the emitted signal's score is below the policy's minScore, the
\* emission starts no executeSignal call, and the order bookkeeping keeps its
\* values.
C1_LowScoreNoOrder ==
  [][(Emission /\ botConfig # <<>> /\ lastEmit'[1].signal.score < botConfig[1].minScore)
       => BotUntouched]_vars

C1_Witness ==
  /\ lastEmit # <<>>
  /\ lastEmit[1].outcome = "lowScore"
  /\ lastEmit[1].signal.score = 65

\* C2: an executeSignal call made while the venue holds a BTCUSDT position never
\* gets past the position query, whatever the query's outcome (as the claim
\* states it).
C2_NoOrderWithPosition ==
  \A i \in 1..Len(handlers) : handlers[i].posAtCall => handlers[i].pc = "positionRisk"

\* C3: with no policy, or a policy with enabled = false, an emission starts no
\* executeSignal call and leaves the order bookkeeping alone.
C3_DisabledDropsAll ==
  [][(Emission /\ (botConfig = <<>> \/ ~botConfig[1].enabled)) => BotUntouched]_vars

C3_Witness ==
  /\ lastEmit # <<>>
  /\ lastEmit[1].outcome = "disabled"
  /\ lastEmit[1].at = now
  /\ botConfig # <<>>
  /\ handlers = <<>>

\* C4: whenever an execution succeeds after an earlier success, the policy-gate
\* times of the two are at least minOrderInterval apart (as the claim states it).
C4_OrderSpacing ==
  [][(totalOrders' > totalOrders /\ totalOrders > 0)
       => Abs(lastOrderTime' - lastOrderTime) >= minOrderInterval]_vars

\* C5: when the executor is not configured, an emission starts no executeSignal
\* call, and lastOrderTime and totalOrders keep their values.
C5_NotifyOnly ==
  [][(Emission /\ (exConfig = <<>> \/ exConfig[1].apiKey = "" \/ exConfig[1].apiSecret = ""))
       => BotUntouched]_vars

C5_Witness ==
  /\ lastEmit # <<>>
  /\ lastEmit[1].outcome = "notifyOnly"
  /\ lastEmit[1].at = now
  /\ handlers = <<>>

\* C6: when executeSignal returns a failure, lastOrderTime and totalOrders keep
\* their values.
C6_FailureLeavesBookkeeping ==
  [][(Returned /\ ~lastResult'[1].success)
       => (lastOrderTime' = lastOrderTime /\ totalOrders' = totalOrders)]_vars

C6_Witness ==
  /\ lastResult # <<>>
  /\ ~lastResult[1].success
  /\ lastResult[1].error = "venue error"

\* C7: every emitted signal was computed from at least 50 bars, at least
\* minSignalInterval after the previous emission, with price > ema20 > ema50 for
\* LONG and price < ema20 < ema50 for SHORT, and carries a score of at least 60.
C7_EmissionGuards ==
  lastEmit # <<>> =>
    LET e == lastEmit[1]
    IN /\ e.bars >= 50
       /\ e.at - e.prev >= minSignalInterval
       /\ e.signal.type = "LONG" => (e.price > e.ema20 /\ e.ema20 > e.ema50)
       /\ e.signal.type = "SHORT" => (e.price < e.ema20 /\ e.ema20 < e.ema50)
       /\ e.signal.type \in {"LONG", "SHORT"}
       /\ e.signal.score >= 60

C7_Witness ==
  /\ lastEmit # <<>>
  /\ lastEmit[1].prev > 0
  /\ lastEmit[1].signal.type = "SHORT"

\* C8: every emitted signal has stopLoss < entryPrice < takeProfit1 < takeProfit2
\* < takeProfit3 when LONG and the reverse order when SHORT (as the claim states it).
C8_LevelOrdering ==
  lastEmit # <<>> =>
    LET s == lastEmit[1].signal
    IN /\ s.type = "LONG" =>
            /\ s.stopLoss < s.entryPrice
            /\ s.entryPrice < s.takeProfit1
            /\ s.takeProfit1 < s.takeProfit2
            /\ s.takeProfit2 < s.takeProfit3
       /\ s.type = "SHORT" =>
            /\ s.stopLoss > s.entryPrice
            /\ s.entryPrice > s.takeProfit1
            /\ s.takeProfit1 > s.takeProfit2
            /\ s.takeProfit2 > s.takeProfit3

\* C9: the history never holds more than maxCandles bars, and a push onto a full
\* history drops the oldest bar and appends the closed one.
C9_HistoryBound ==
  /\ [](Len(candles) <= maxCandles)
  /\ [][(Len(candles) = maxCandles /\ candles' # candles /\ sdLoads' = sdLoads)
         => candles' = Append(Tail(candles), currentCandle[1])]_vars

C9_Witness ==
  /\ Len(candles) = maxCandles
  /\ candles[1].timestamp > FeedStart - (SeedLimit - 1) * candleInterval

\* C10: the bars of the history have strictly increasing timestamps (as the claim
\* states it).
C10_IncreasingTimestamps ==
  \A i \in 1..(Len(candles) - 1) : candles[i].timestamp < candles[i + 1].timestamp

\* C11: a bar built from ticks (the open one, and every pushed one) has
\* low <= open <= high and low <= close <= high; and a step that is not a
\* history load leaves the pushed bars as they are: the history is unchanged,
\* or it gains the bar that was open, as it was, at its end (and loses its
\* oldest bar when that exceeds the bound).
WellFormed(bar) ==
  /\ bar.low <= bar.open /\ bar.open <= bar.high
  /\ bar.low <= bar.close /\ bar.close <= bar.high
TickBuilt(bar) == bar.volume = 0
RECURSIVE Power(_, _)
Power(b, e) == IF e = 0 THEN 1 ELSE b * Power(b, e - 1)
\* 5000 * 1.5^(k-1) in units of 1/2^10 ms: 5000 * 2^10 = 625 * 2^13
ExpectedDelay(k) == 625 * Power(2, 14 - k) * Power(3, k - 1)
C13_BackoffSchedule ==
  \A j \in 1..Len(pmTimers) :
    pmTimers[j].kind = "backoff" =>
      /\ pmTimers[j].drop \in 1..maxReconnectAttempts
      /\ pmTimers[j].delay = ExpectedDelay(pmTimers[j].drop)
      /\ pmTimers[j].drop = 1 => pmTimers[j].delay = 5000 * DelayScale
      /\ pmTimers[j].drop = 2 => pmTimers[j].delay = 7500 * DelayScale
      /\ pmTimers[j].drop = 3 => pmTimers[j].delay = 11250 * DelayScale
C13_Witness ==
  /\ pmRunning /\ pmLastEvent = "drop" /\ pmDrops = 3
  /\ \E j \in 1..Len(pmTimers) :
       pmTimers[j].drop = 3 /\ pmTimers[j].delay = 11250 * DelayScale

\* C14: the attempt counter never exceeds maxReconnectAttempts (10); a close
\* answered with the counter at 10 schedules a 60 s wait, not a backoff delay,
\* and leaves the counter at 10; when that wait ends the counter is back at 0
\* and a connection attempt is made.
ScheduledTimer == pmTimers'[Len(pmTimers')]
C14_CounterCapAndCooldown ==
  [][/\ reconnectAttempts' <= 10
     /\ (pmLastEvent' = "drop" /\ reconnectAttempts = 10) =>
          /\ Len(pmTimers') = Len(pmTimers) + 1
          /\ ScheduledTimer.kind = "cooldown"
          /\ ScheduledTimer.delay = 60000 * DelayScale
          /\ reconnectAttempts' = 10
     /\ (pmLastEvent' = "drop" /\ reconnectAttempts < 10) =>
          /\ ScheduledTimer.kind = "backoff"
          /\ reconnectAttempts' = reconnectAttempts + 1
     /\ pmLastEvent' = "cooldown" =>
          /\ reconnectAttempts' = 0
          /\ pmConnects' = pmConnects + 1
          /\ Len(pmSockets') = Len(pmSockets) + 1
          /\ pmSockets'[Len(pmSockets')].state = "connecting"]_vars
C14_Witness ==
  /\ pmLastEvent = "cooldown" /\ reconnectAttempts = 0
  /\ pmConnects = maxReconnectAttempts + 2

\* C15: when a connection opens the attempt counter is 0, and the first
\* reconnect scheduled after an Open waits the base delay of 5 s.
C15_OpenResetsCounter ==
  [][/\ pmLastEvent' = "open" => reconnectAttempts' = 0
     /\ (pmLastEvent = "open" /\ pmLastEvent' \in {"start", "stop", "close", "suppressed"}) =>
          reconnectAttempts' = 0
     /\ (pmLastEvent' = "drop" /\ reconnectAttempts = 0) =>
          /\ ScheduledTimer.kind = "backoff"
          /\ ScheduledTimer.delay = 5000 * DelayScale]_vars
C15_Witness ==
  /\ pmLastEvent = "drop" /\ pmDrops = 1
  /\ \E j \in 1..Len(pmTimers) : pmTimers[j].drop = 2
  /\ \E j \in 1..Len(pmTimers) :
       pmTimers[j].drop = 1 /\ pmTimers[j].delay = 5000 * DelayScale

\* C16: from a stop() of the price monitor until its next start(), connect()
\* creates no connection: no step that ends with the monitor stopped adds a
\* socket, whether it is a reconnect or cooldown timer firing or a close
\* event arriving.
C16_NoConnectWhileStopped ==
  [][~pmRunning' =>
       /\ pmConnects' = pmConnects
       /\ Len(pmSockets') <= Len(pmSockets)
       /\ \A i \in 1..Len(pmSockets') : pmSockets'[i].state # "connecting" \/ ~pmSockets'[i].current
       /\ Len(pmTimers') <= Len(pmTimers)]_vars
C16_Witness ==
  /\ ~pmRunning /\ pmLastEvent = "suppressed"
  /\ \E j \in 1..Len(pmTimers) : pmTimers[j].kind = "cooldown"

\* C17: when stop() of the price monitor has returned, no timer of the
\* monitor is pending: no ping interval, no backoff timer, no cooldown timer.
C17_StopCancelsTimers ==
  pmLastEvent = "stop" => pmPings = 0 /\ pmTimers = <<>>

\* C18: from a stop() of the detector until its next start(), no analysis
\* timer is left to fire and no signal is emitted.
C18_StopSilencesEngine ==
  [][~sdRunning =>
       /\ lastEmit' = lastEmit
       /\ ~sdRunning' => sdIntervals' = 0 /\ sdTimeouts' = 0]_vars

\* C12: however many times start() is called on the price monitor, the
\* detector and the bot without a stop(), the second call included that comes
\* while the first awaits the seeding, there is one feed connection, one
\* seeding request, one tick subscription of the detector, one 60 s interval
\* and one 5 s timeout, one price subscription of the bot and one signal
\* subscription of the bot (start() sends its notification where it subscribes).
C12_StartIdempotent ==
  /\ pmConnects <= 1 /\ Len(pmSockets) <= 1
  /\ Len(sdLoads) + pmSdSubs <= 1
  /\ sdIntervals <= 1 /\ sdTimeouts <= 1
  /\ pmBotSubs <= 1 /\ sdCallbacks <= 1
  /\ pmRunning => pmConnects = 1
  /\ (sdRunning /\ sdLoads = <<>>) => pmSdSubs = 1 /\ sdIntervals = 1
  /\ (botRunning /\ sdLoads = <<>>) => pmBotSubs = 1 /\ sdCallbacks = 1
\* the monitor was started before the bot started it again (its socket had
\* opened by then), and the bot started the detector while the start() called
\* before awaited the seeding
C12_Witness ==
  /\ botRunning /\ sdRunning /\ sdLoads = <<ApiCaller>>
  /\ pmLastEvent = "start" /\ Len(pmSockets) = 1 /\ pmSockets[1].state = "open"
  /\ sdCallbacks = 1

\* C19: when a configure(policy) request completes, the stored policy is
\* the one it supplied and the bot runs exactly if policy.enabled, whatever
\* requests overlapped it. A request completes in the step of ApiConfigure,
\* or, when its start() was suspended on the seeding, where that resumes.
C19_ConfigureTakesEffect ==
  [][\A i \in 1..Len(sdLoads) :
       (sdLoads' = RemoveAt(sdLoads, i) /\ sdLoads[i].req # <<>>) =>
         /\ botConfig' = sdLoads[i].req
         /\ botRunning' = sdLoads[i].req[1].enabled]_vars

\* C20: whenever the bot is stopped and no start() of it is suspended, the
\* price monitor is stopped, with no connection and no reconnect timer, and
\* the detector is stopped, with no analysis timer pending.
C20_StoppedMeansAllStopped ==
  (~botRunning /\ sdLoads = <<>>) =>
    /\ ~pmRunning
    /\ \A i \in 1..Len(pmSockets) : pmSockets[i].state \notin {"connecting", "open"}
    /\ pmTimers = <<>>
    /\ ~sdRunning
    /\ sdIntervals = 0 /\ sdTimeouts = 0

\* C21: calculatePositionSize returns the quantity
\* balance * accountPercentage/100 * leverage / entryPrice truncated to three
\* decimals, never rounded up: in thousandths, the largest q with
\* q * entryPrice <= balance * accountPercentage * leverage * 10; and it is
\* 0.030 for balance 1000, 10 %, leverage 15 and entry price 50000.
SizedBalance == IF exReturn[1].answer # <<>> /\ exReturn[1].answer[1].ok
                THEN exReturn[1].answer[1].available ELSE 0
C21_PositionSizeTruncated ==
  (exReturn # <<>> /\ exReturn[1].method = "calculatePositionSize") =>
    LET r == exReturn[1]
        exact == SizedBalance * r.args.accountPercentage * r.args.leverage * 10
    IN /\ r.value * r.args.entryPrice <= exact
       /\ exact < (r.value + 1) * r.args.entryPrice
       /\ (SizedBalance = 1000 * Scale /\ r.args.accountPercentage = 10
             /\ r.args.leverage = 15 /\ r.args.entryPrice = 50000 * Scale) => r.value = 30
\* a quantity that is cut: 333.3 * 10 % * 15 / 50000 = 0.0099..., returned as 0.009
C21_Witness ==
  /\ exReturn # <<>> /\ exReturn[1].method = "calculatePositionSize"
  /\ exReturn[1].args.entryPrice = 50000 * Scale /\ exReturn[1].args.accountPercentage = 10
  /\ exReturn[1].args.leverage = 15
  /\ SizedBalance = 333 * Scale + 3 /\ exReturn[1].value = 9

\* C22: a setLeverage request the venue rejects with code -4028, and a
\* setMarginType request it rejects with code -4046, return true.
C22_AlreadySetIsSuccess ==
  (exReturn # <<>> /\ exReturn[1].answer # <<>> /\ ~exReturn[1].answer[1].ok) =>
    /\ (exReturn[1].method = "setLeverage" /\ exReturn[1].answer[1].code = 0 - 4028) =>
         exReturn[1].value = TRUE
    /\ (exReturn[1].method = "setMarginType" /\ exReturn[1].answer[1].code = 0 - 4046) =>
         exReturn[1].value = TRUE

\* C26: within one executeSignal call the venue requests go out one at a
\* time, each after the answer to the one before: position query,
\* set-leverage, set-margin-type, balance query, order placement.
RequestOrder ==
  <<<<"request", "positionRisk">>, <<"response", "positionRisk">>,
    <<"request", "leverage">>, <<"response", "leverage">>,
    <<"request", "marginType">>, <<"response", "marginType">>,
    <<"request", "balance">>, <<"response", "balance">>,
    <<"request", "order">>, <<"response", "order">>>>
TracedMethod == IF exCall # <<>> THEN exCall[1].method
                ELSE IF exReturn # <<>> THEN exReturn[1].method ELSE ""
C26_RequestsInOrder ==
  TracedMethod = "executeSignal" =>
    /\ Len(exTrace) <= Len(RequestOrder)
    /\ \A i \in 1..Len(exTrace) : exTrace[i] = RequestOrder[i]
    /\ exCall # <<>> => exTrace[Len(exTrace)] = <<"request", exCall[1].pc>>
C26_Witness ==
  /\ exReturn # <<>> /\ exReturn[1].method = "executeSignal"
  /\ exReturn[1].value.success
  /\ exTrace = RequestOrder

\* C30: when the balance request of an executeSignal call fails, or the
\* quantity computed is not greater than 0, the call returns a failure
\* record and sends no order: an order request goes out only on a balance
\* answer that succeeded and gave a quantity above 0.
OrderRequested == \E i \in 1..Len(exTrace) : exTrace[i] = <<"request", "order">>
C30_NoOrderWithoutQuantity ==
  /\ (exCall # <<>> /\ exCall[1].method = "executeSignal" /\ exCall[1].pc = "order") =>
       /\ exCall[1].answer[1].ok
       /\ exCall[1].answer[1].available > 0
       /\ exCall[1].quantity > 0
  /\ (exReturn # <<>> /\ exReturn[1].method = "executeSignal"
        /\ exTrace # <<>> /\ exTrace[Len(exTrace)] = <<"response", "balance">>) =>
       /\ ~exReturn[1].value.success
       /\ exReturn[1].value.error = <<"Quantidade", "invalida">>
       /\ ~OrderRequested
C30_Witness ==
  /\ exReturn # <<>> /\ exReturn[1].method = "executeSignal"
  /\ exTrace # <<>> /\ exTrace[Len(exTrace)] = <<"response", "balance">>
  /\ ~exReturn[1].answer[1].ok
  /\ ~exReturn[1].value.success /\ ~OrderRequested

\* C28: the order counter equals the number of executeSignal calls that
\* returned success, and lastOrderTime never decreases, however the signal
\* handlers overlap.
C28_CounterAndOrderTime ==
  [][/\ totalOrders' = successes'
     /\ lastOrderTime' >= lastOrderTime]_vars

\* C27: when the fetch of the historical bars fails, start() goes on to its
\* end: the detector keeps running, subscribes to the ticks and arms its
\* timers, the history is left as it was, and as long as no seeding has
\* succeeded every bar of the history is built from ticks.
C27_SeedingFailureNonFatal ==
  [][/\ (Len(sdLoads') < Len(sdLoads) /\ ~historyLoaded') =>
          /\ candles' = candles /\ lastCandleTime' = lastCandleTime
          /\ currentCandle' = currentCandle
          /\ sdRunning' = sdRunning
          /\ pmSdSubs' = pmSdSubs + 1
          /\ analysisInterval' /\ sdIntervals' = sdIntervals + 1
          /\ sdTimeouts' = sdTimeouts + 1
     /\ ~historyLoaded' => \A i \in 1..Len(candles') : TickBuilt(candles'[i])]_vars
C27_Witness ==
  /\ ~historyLoaded /\ sdLoads = <<>>
  /\ sdRunning /\ pmSdSubs = 1 /\ sdIntervals = 1
  /\ Len(candles) = 1 /\ TickBuilt(candles[1])

\* C29: while the monitor stays in should-run mode, every close it answers
\* is followed, sooner or later, by a new connection attempt, the close
\* answered with the counter at maxReconnectAttempts included (the runs end
\* at MaxConnects connections).
DropAnswered == pmRunning /\ pmLastEvent = "drop"
DropAnsweredAtCap ==
  /\ DropAnswered
  /\ \E j \in 1..Len(pmTimers) : pmTimers[j].kind = "cooldown"
Reattempted == pmRunning /\ pmLastEvent \in {"backoff", "cooldown"}
C29_ReconnectEventually ==
  /\ DropAnswered ~> (Reattempted \/ ~pmRunning \/ pmConnects >= MaxConnects)
  /\ DropAnsweredAtCap ~> (Reattempted \/ ~pmRunning \/ pmConnects >= MaxConnects)
C29_Witness ==
  /\ Reattempted /\ pmLastEvent = "cooldown"
  /\ pmSockets # <<>> /\ pmSockets[Len(pmSockets)].state = "connecting"
  /\ pmConnects < MaxConnects

\* C23: a malformed feed message (its text does not parse, or it has no
\* numeric last price) is dropped: lastTick and every tick a subscriber is
\* called with carry a numeric price, and a well-formed message that follows
\* is delivered to every subscriber.
NumericLastTick == lastPrice # <<>> => lastPrice[1].price # <<>>
NumericDelivered ==
  \A i \in 1..Len(pmForeign) : pmForeign[i] # <<>> => pmForeign[i][1].event.price # <<>>
C23_MalformedDropped ==
  /\ [](NumericLastTick /\ NumericDelivered)
  /\ [][(lastPrice' # lastPrice /\ lastPrice'[1].price # <<>>)
         => \A i \in 1..Len(pmForeign') :
              pmForeign'[i] # <<>> /\ pmForeign'[i][1].event = lastPrice'[1]]_vars
\* the half that holds: a message whose text does not parse changes nothing,
\* and the well-formed message after a malformed one reaches every subscriber
C23_WellFormedStillDelivered ==
  [][(lastPrice' # lastPrice /\ lastPrice'[1].price # <<>>)
       => \A i \in 1..Len(pmForeign') :
            pmForeign'[i] # <<>> /\ pmForeign'[i][1].event = lastPrice'[1]]_vars
C23_NaNDelivered ==
  /\ lastPrice # <<>> /\ lastPrice[1].price = <<>>
  /\ Len(pmForeign) = MaxForeign
  /\ \A i \in 1..Len(pmForeign) : pmForeign[i] # <<>> /\ pmForeign[i][1].event = lastPrice[1]

\* C24: when a subscriber's handler throws while a tick or a signal is being
\* delivered, every other registered handler is still called with that event,
\* and the events that follow are still delivered to all handlers.
Threw(call) == call # <<>> /\ call[1].threw
TickThrown == \E i \in 1..Len(pmForeign) : pmForeign'[i] # pmForeign[i] /\ Threw(pmForeign'[i])
SignalThrown == \E i \in 1..Len(sdForeign) : sdForeign'[i] # sdForeign[i] /\ Threw(sdForeign'[i])
TickAfterThrow == lastPrice' # lastPrice /\ \E i \in 1..Len(pmForeign) : Threw(pmForeign[i])
SignalAfterThrow == lastEmit' # lastEmit /\ \E i \in 1..Len(sdForeign) : Threw(sdForeign[i])
AllGotTick(callbacks, tick) ==
  \A j \in 1..Len(callbacks) : callbacks[j] # <<>> /\ callbacks[j][1].event = tick[1]
AllGotSignal(callbacks, emit) ==
  \A j \in 1..Len(callbacks) :
    /\ callbacks[j] # <<>>
    /\ callbacks[j][1].event = [at |-> emit[1].at, signal |-> emit[1].signal]
C24_ThrowerIsolated ==
  [][/\ (TickThrown \/ TickAfterThrow) => AllGotTick(pmForeign', lastPrice')
     /\ (SignalThrown \/ SignalAfterThrow) => AllGotSignal(sdForeign', lastEmit')]_vars
C24_Witness ==
  /\ Len(pmForeign) = MaxForeign /\ Threw(pmForeign[1]) /\ AllGotTick(pmForeign, lastPrice)
  /\ Len(sdForeign) = MaxForeign /\ Threw(sdForeign[1]) /\ AllGotSignal(sdForeign, lastEmit)

\* C25: the log holds at most 100 entries, newest first; an append at the
\* bound discards only the oldest entries, and the entries that remain keep
\* their order and their content.
NewestFirst ==
  \A i \in 1..(Len(logs) - 1) :
    logs[i].nth > logs[i + 1].nth /\ logs[i].timestamp >= logs[i + 1].timestamp
OnlyOldestDiscarded ==
  \E n \in 0..Len(logs') :
    /\ Len(logs') = (IF Len(logs) + n > 100 THEN 100 ELSE Len(logs) + n)
    /\ \A i \in (n + 1)..Len(logs') : logs'[i] = logs[i - n]
C25_LogBounded ==
  /\ [](Len(logs) <= 100 /\ NewestFirst)
  /\ [][OnlyOldestDiscarded]_vars
C25_Witness ==
  /\ Len(logs) = 100
  /\ logs[1].nth > 100
  /\ logs[100].nth = logs[1].nth - 99

\* C31: closePosition submits exactly one market order, on the side opposite
\* to the sign of the open position (SELL for a positive amount, BUY for a
\* negative one) and for the absolute amount; when it finds no open position
\* it returns a failure and submits no order.
ClosingTrace ==
  <<<<"request", "positionRisk">>, <<"response", "positionRisk">>,
    <<"request", "order">>, <<"response", "order">>>>
C31_ClosePositionFlattens ==
  TracedMethod = "closePosition" =>
    /\ Len(exTrace) <= Len(ClosingTrace)
    /\ \A i \in 1..Len(exTrace) : exTrace[i] = ClosingTrace[i]
    /\ (exCall # <<>> /\ exCall[1].pc = "order") =>
         /\ exCall[1].answer[1].ok
         /\ exCall[1].answer[1].positionAmt # 0
         /\ exCall[1].answer[1].positionAmt > 0 => exCall[1].side = "SELL"
         /\ exCall[1].answer[1].positionAmt < 0 => exCall[1].side = "BUY"
         /\ exCall[1].quantity > 0
         /\ exCall[1].quantity \in {exCall[1].answer[1].positionAmt,
                                    0 - exCall[1].answer[1].positionAmt}
    /\ (exReturn # <<>> /\ Len(exTrace) <= 2) =>
         /\ ~exReturn[1].value.success
         /\ exReturn[1].answer # <<>> =>
              ~exReturn[1].answer[1].ok \/ exReturn[1].answer[1].positionAmt = 0
C31_Witness ==
  /\ exCall # <<>> /\ exCall[1].method = "closePosition" /\ exCall[1].pc = "order"
  /\ exCall[1].answer[1].positionAmt < 0
  /\ exCall[1].side = "BUY"
  /\ exTrace = SubSeq(ClosingTrace, 1, 3)

\* C37: when the position query of an executeSignal call fails, the call
\* returns a failure and sends no leverage, margin, balance or order request.
C37_FailedQueryEndsCall ==
  TracedMethod = "executeSignal" =>
    /\ (exCall # <<>> /\ Len(exTrace) = 3) => exCall[1].answer[1].ok
    /\ (exReturn # <<>> /\ Len(exTrace) = 2 /\ ~exReturn[1].answer[1].ok) =>
         ~exReturn[1].value.success
\* what happens instead: the call goes on to an order after a failed query
C37_OrderAfterFailedQuery ==
  /\ exCall # <<>> /\ exCall[1].method = "executeSignal" /\ Len(exTrace) = 3
  /\ ~exCall[1].answer[1].ok
  /\ exTrace[3] = <<"request", "leverage">>

\* C38: executeSignal sends an order request only if setLeverage and
\* setMarginType both returned true in that call.
C38_OrderOnlyWhenSettingsApplied ==
  (exCall # <<>> /\ exCall[1].method = "executeSignal" /\ exCall[1].pc = "order") =>
    exCall[1].settings = <<TRUE, TRUE>>

\* C39: all the requests of one executeSignal call are made with the same
\* credentials and the same base URL, also when configure is called while the
\* call is in flight.
C39_OneAccessPerCall ==
  (exCall # <<>> /\ exCall[1].method = "executeSignal") =>
    \A a, b \in exCall[1].accesses : a = b

\* C34: after any sequence of start, stop and configure calls on the bot, the
\* bot has at most one signal handler registered with the detector, and an
\* emitted signal starts at most one executeSignal call.
C34_OneHandlerPerSignal ==
  /\ [](sdCallbacks <= 1)
  /\ [][Emission => Len(handlers') <= Len(handlers) + 1]_vars
\* what happens instead: one emission starts two executeSignal calls
C34_TwoCallsForOneSignal ==
  /\ Len(handlers) = 2
  /\ handlers[1].gateNow = handlers[2].gateNow
  /\ handlers[1].pc = "positionRisk" /\ handlers[2].pc = "positionRisk"
  /\ lastEmit # <<>> /\ lastEmit[1].at = handlers[1].gateNow

\* C35: while the bot is stopped, no executeSignal call is started and no
\* order request is sent, whatever the stored policy says.
OrdersAwaited(calls) == Cardinality({i \in 1..Len(calls) : calls[i].pc = "order"})
C35_StoppedBotPlacesNoOrder ==
  [][(~botRunning /\ ~botRunning') =>
       /\ Len(handlers') <= Len(handlers)
       /\ OrdersAwaited(handlers') <= OrdersAwaited(handlers)]_vars
\* what happens instead: a call in flight that started while the bot was stopped
C35_CallWhileStopped ==
  /\ ~botRunning /\ handlers # <<>>
  /\ lastEmit # <<>> /\ lastEmit[1].at = handlers[Len(handlers)].gateNow
  /\ lastEmit[1].outcome = "execute"

\* C40: after a configure of the bot whose apiKey or apiSecret is empty, the
\* executor is not configured, also when an earlier configure had supplied
\* credentials.
C40_EmptyCredentialsUnconfigure ==
  [][(botConfig' # botConfig /\ (botConfig'[1].apiKey = "" \/ botConfig'[1].apiSecret = ""))
       => ~(exConfig' # <<>> /\ exConfig'[1].apiKey # "" /\ exConfig'[1].apiSecret # "")]_vars

\* C32: on every analysis run the closing-price series the indicators are
\* computed over is the closes of the history followed by the close of the
\* current open bar, when there is one.
SeriesWithOpenBar == Append(Closes(candles), currentCandle[1].close)
C32_SeriesEndsWithOpenBar ==
  [][(Emission /\ currentCandle # <<>>) =>
       /\ lastEmit'[1].ema20 = calculateEMA(SeriesWithOpenBar, 20)
       /\ lastEmit'[1].ema50 = calculateEMA(SeriesWithOpenBar, 50)]_vars
\* what the code does: the indicators are computed over the closes of the
\* history alone; the close of the open bar is only the current price the
\* indicators are compared with
C32_SeriesIsHistoryOnly ==
  [][Emission =>
       /\ lastEmit'[1].ema20 = calculateEMA(Closes(candles), 20)
       /\ lastEmit'[1].ema50 = calculateEMA(Closes(candles), 50)
       /\ (currentCandle # <<>> /\ currentCandle[1].close # 0) =>
            lastEmit'[1].price = currentCandle[1].close]_vars
C32_OpenBarLeftOut ==
  /\ lastEmit # <<>> /\ lastEmit[1].at = lastSignalTime /\ currentCandle # <<>>
  /\ lastEmit[1].price = currentCandle[1].close
  /\ lastEmit[1].bars = Len(candles)
  /\ lastEmit[1].ema20 = calculateEMA(Closes(candles), 20)
  /\ lastEmit[1].ema20 # calculateEMA(SeriesWithOpenBar, 20)

\* C36: at every moment the monitor has at most one connection that is
\* connecting or open and at most one heartbeat timer, after any sequence of
\* start(), stop(), close events and timer firings.
LiveSockets == {i \in 1..Len(pmSockets) : pmSockets[i].state \in {"connecting", "open"}}
C36_OneConnectionOneHeartbeat ==
  /\ Cardinality(LiveSockets) <= 1
  /\ pmPings <= 1
\* what happens instead: two connections live at once, and two heartbeat timers
C36_TwoConnections == Cardinality(LiveSockets) >= 2
C36_TwoHeartbeats == pmPings >= 2

\* C33: after stop() on the monitor has returned and until the next start(),
\* no tick is delivered to a subscriber and lastPrice does not change, even
\* if the closing connection still produces messages.
C33_StopHaltsDelivery ==
  [][(~pmRunning /\ ~pmRunning') =>
       /\ lastPrice' = lastPrice
       /\ \A i \in 1..Len(pmForeign) : pmForeign'[i] = pmForeign[i]]_vars
\* what happens instead: a tick later than every tick delivered before stop()
\* reaches the subscribers of a stopped monitor
C33_TickAfterStop ==
  /\ ~pmRunning /\ pmLastEvent = "stop"
  /\ lastPrice # <<>> /\ pmForeign # <<>> /\ pmForeign[1] # <<>>
  /\ pmForeign[1][1].event = lastPrice[1]
  /\ \A i \in 1..Len(pmSockets) : pmSockets[i].state = "closing"

====
